---- MODULE Spec2Model ----
(***************************************************************************)
(* A model of the lux_rust NIF crate (lux/native/lux_rust/src/lib.rs and   *)
(* components/echo.rs): the Term <-> serde_json::Value bridge, the         *)
(* component registry, and the initialize / process / cleanup NIFs over a  *)
(* ResourceArc<ComponentResource> { runtime: Mutex<Runtime>, component }.  *)
(*                                                                         *)
(* Host terms and Values are tagged pairs <<tag, payload>>.                *)
(*   terms : <<"map", f>>        f a function from key terms to terms      *)
(*           <<"list", s>>       s a sequence of terms (a proper list)     *)
(*           <<"tuple", s>>      s a sequence of terms                     *)
(*           <<"int", n>>        any integer, also outside the i64 range   *)
(*           <<"float", h>>      the finite double h/2                     *)
(*           <<"binary", s>>     a binary holding the UTF-8 text s         *)
(*           <<"rawbinary", 0>>  a binary that is not valid UTF-8          *)
(*           <<"atom", name>>    <<"pid", 0>>                              *)
(*   Values: <<"Null", 0>> <<"Bool", b>> <<"String", s>> <<"Array", s>>    *)
(*           <<"Object", f>>     f a function from key strings to Values   *)
(*           <<"Number", <<"int", n>>>>    serde_json PosInt / NegInt      *)
(*           <<"Number", <<"float", h>>>>  serde_json Float, value h/2     *)
(* Integers are scaled from 64 to IntBits bits: TLC's integers are 32 bits *)
(* wide, and only the position of a number relative to the i64 and u64     *)
(* ranges matters to the code.                                             *)
(***************************************************************************)
EXTENDS Integers, Sequences, FiniteSets, TLC

VARIABLES
    handles,    \* the ComponentResources that exist, by handle id
    component,  \* component[h]: the Box<dyn LuxComponent> of resource h
    lock,       \* lock[h]: the caller holding resource h's runtime Mutex, or Free
    contexts,   \* the number of live tokio Runtimes
    pc,         \* pc[c]: where host thread c is inside a NIF call
    call,       \* call[c]: the arguments and locals of c's current or last call
    ret,        \* ret[c]: what c's last NIF call returned
    log,        \* log[h]: the component operations executed on resource h, in order
    ncalls,     \* the number of NIF calls issued so far
    registered, \* the names the match of create_component knows
    b_pc,       \* bridge harness: which conversion was applied
    b_in,       \* bridge harness: the input, a term or a Value
    b_out,      \* bridge harness: the result of the first conversion
    b_back      \* bridge harness: the result of converting b_out back

vars == <<handles, component, lock, contexts, pc, call, ret, log, ncalls,
          registered, b_pc, b_in, b_out, b_back>>
sysvars == <<handles, component, lock, contexts, pc, call, ret, log, ncalls,
             registered>>
bridgevars == <<b_pc, b_in, b_out, b_back>>

----------------------------------------------------------------------------
(* Bounds *)

\* Width of the scaled "64-bit" integers.
IntBits == 4
\* Largest number of nodes of a generated term or Value tree.
MaxNodes == 3
\* NIF calls issued in one behaviour.
MaxCalls == 4

RECURSIVE Pow2(_)
Pow2(n) == IF n = 0 THEN 1 ELSE 2 * Pow2(n - 1)

I64_MAX == Pow2(IntBits - 1) - 1
I64_MIN == -Pow2(IntBits - 1)
U64_MAX == Pow2(IntBits) - 1

----------------------------------------------------------------------------
(* Results *)

Ok(x) == <<"Ok", x>>
Err(e) == <<"Err", e>>
IsOk(r) == r[1] = "Ok"
IsErr(r) == r[1] = "Err"

BadArg == "badarg"
NotImplemented == "not_implemented"
RuntimeError == "Runtime error"
ComponentError == "component_error"

----------------------------------------------------------------------------
(* Host terms: the probes and decoders term_to_json uses *)

is_map(term) == term[1] = "map"
is_list(term) == term[1] = "list"
is_number(term) == term[1] \in {"int", "float"}
is_atom(term) == term[1] = "atom"

\* decode of an integer as it would be without the range check of i64: the
\* integer itself, whatever its size.
decode_i64_unbounded(term) ==
    IF term[1] = "int" THEN Ok(term[2]) ELSE Err(BadArg)

\* term.decode::<i64>()
decode_i64(term) ==
    IF term[1] = "int" /\ term[2] >= I64_MIN /\ term[2] <= I64_MAX
    THEN Ok(term[2]) ELSE Err(BadArg)

\* term.decode::<f64>(): enif_get_double, which accepts float terms only
decode_f64(term) ==
    IF term[1] = "float" THEN Ok(term[2]) ELSE Err(BadArg)

\* term.decode::<String>(): a binary holding valid UTF-8
decode_String(term) ==
    IF term[1] = "binary" THEN Ok(term[2]) ELSE Err(BadArg)

\* term.decode::<bool>(): the atoms true and false
decode_bool(term) ==
    IF term = <<"atom", "true">> THEN Ok(TRUE)
    ELSE IF term = <<"atom", "false">> THEN Ok(FALSE)
    ELSE Err(BadArg)

\* term.atom_to_string()
atom_to_string(term) ==
    IF term[1] = "atom" THEN Ok(term[2]) ELSE Err(BadArg)

\* term.decode::<HashMap<String, Term>>(): every key must decode as a String
decode_HashMap(term) ==
    IF term[1] = "map" /\ \A k \in DOMAIN term[2] : IsOk(decode_String(k))
    THEN Ok([s \in {k[2] : k \in DOMAIN term[2]} |-> term[2][<<"binary", s>>]])
    ELSE Err(BadArg)

\* term.decode::<Vec<Term>>().unwrap_or_default()
decode_Vec(term) ==
    IF term[1] = "list" THEN term[2] ELSE <<>>

----------------------------------------------------------------------------
(* serde_json::Value *)

Null == <<"Null", 0>>
Bool(b) == <<"Bool", b>>
String(s) == <<"String", s>>
Array(s) == <<"Array", s>>
Object(f) == <<"Object", f>>
NumInt(n) == <<"Number", <<"int", n>>>>
NumFloat(h) == <<"Number", <<"float", h>>>>

\* serde_json::Number::from_f64: None for a non-finite double. A float term
\* of the host is always finite, so it is always Some here.
from_f64(h) == Ok(NumFloat(h))

\* serde_json::Number::as_i64: Some for NegInt, and for PosInt up to i64::MAX
as_i64(n) ==
    IF n[1] = "int" /\ n[2] <= I64_MAX THEN Ok(n[2]) ELSE Err("None")

\* serde_json::Number::as_f64: the value as a double (in halves)
as_f64(n) ==
    IF n[1] = "int" THEN Ok(2 * n[2]) ELSE Ok(n[2])

\* The iteration order of serde_json::Map: its keys in sorted order.
KeySeq == <<"a", "b">>
SortedKeys(f) == SelectSeq(KeySeq, LAMBDA k : k \in DOMAIN f)

----------------------------------------------------------------------------
(* term_to_json, lib.rs 100-145 *)

RECURSIVE term_to_json(_)
term_to_json(term) ==
    IF is_map(term) THEN
        LET map == decode_HashMap(term) IN
        IF IsErr(map) THEN Err(BadArg)
        ELSE IF \E key \in DOMAIN map[2] : IsErr(term_to_json(map[2][key]))
        THEN Err(BadArg)
        ELSE Ok(Object([key \in DOMAIN map[2] |-> term_to_json(map[2][key])[2]]))
    ELSE IF is_list(term) THEN
        LET list == decode_Vec(term) IN
        IF \E i \in DOMAIN list : IsErr(term_to_json(list[i]))
        THEN Err(BadArg)
        ELSE Ok(Array([i \in DOMAIN list |-> term_to_json(list[i])[2]]))
    ELSE IF is_number(term) THEN
        IF IsOk(decode_i64(term)) THEN Ok(NumInt(decode_i64(term)[2]))
        ELSE IF IsOk(decode_f64(term)) THEN
            IF IsOk(from_f64(decode_f64(term)[2]))
            THEN Ok(from_f64(decode_f64(term)[2])[2])
            ELSE Ok(NumInt(0))
        ELSE Ok(NumInt(0))
    ELSE IF IsOk(decode_String(term)) THEN Ok(String(decode_String(term)[2]))
    ELSE IF IsOk(decode_bool(term)) THEN Ok(Bool(decode_bool(term)[2]))
    ELSE IF is_atom(term) THEN
        IF IsOk(atom_to_string(term)) THEN
            IF atom_to_string(term)[2] = "nil" THEN Ok(Null)
            ELSE Ok(String(atom_to_string(term)[2]))
        ELSE Ok(Null)
    ELSE Ok(Null)

----------------------------------------------------------------------------
(* json_to_term, lib.rs 148-174 *)

\* Vec<(String, Term)>::encode: a list of 2-tuples {binary, term}
encode_entries(entries) ==
    <<"list", [i \in DOMAIN entries |->
                  <<"tuple", << <<"binary", entries[i][1]>>, entries[i][2] >> >>]>>

RECURSIVE json_to_term(_)
json_to_term(value) ==
    CASE value[1] = "Object" ->
            LET keys == SortedKeys(value[2])
                map_entries == [i \in DOMAIN keys |->
                                   <<keys[i], json_to_term(value[2][keys[i]])[2]>>]
            IN Ok(encode_entries(map_entries))
      [] value[1] = "Array" ->
            Ok(<<"list", [i \in DOMAIN value[2] |-> json_to_term(value[2][i])[2]]>>)
      [] value[1] = "String" -> Ok(<<"binary", value[2]>>)
      [] value[1] = "Number" ->
            IF IsOk(as_i64(value[2])) THEN Ok(<<"int", as_i64(value[2])[2]>>)
            ELSE IF IsOk(as_f64(value[2])) THEN Ok(<<"float", as_f64(value[2])[2]>>)
            ELSE Ok(<<"int", 0>>)
      [] value[1] = "Bool" ->
            Ok(<<"atom", IF value[2] THEN "true" ELSE "false">>)
      [] value[1] = "Null" -> Ok(<<"atom", "nil">>)

----------------------------------------------------------------------------
(* The terms and Values the conversions are applied to *)

StringSet == {"a", "true"}
AtomSet == {"true", "false", "nil", "foo"}

\* Integer terms: inside the i64 range, at its ends, and beyond them.
IntSet == {I64_MIN - 1, I64_MIN, 0, I64_MAX, I64_MAX + 1}
\* Doubles, in halves: 1.5 and 2.0.
FloatSet == {3, 4}

LeafTerms ==
    {<<"int", n>> : n \in IntSet} \cup {<<"float", h>> : h \in FloatSet}
    \cup {<<"binary", s>> : s \in StringSet} \cup {<<"rawbinary", 0>>}
    \cup {<<"atom", a>> : a \in AtomSet} \cup {<<"pid", 0>>}

\* The leaves of the terms that have more than one node.
InnerLeafTerms ==
    {<<"int", 0>>, <<"int", I64_MAX + 1>>, <<"binary", "a">>, <<"atom", "nil">>,
     <<"atom", "foo">>}

\* The keys a generated map term may have: two binaries and an atom.
MapKeySeq == << <<"binary", "a">>, <<"binary", "b">>, <<"atom", "k">> >>

\* The non-empty subsequences of a sequence of at most three elements.
SubSeqs(s) ==
    {<<s[i]>> : i \in DOMAIN s}
    \cup {<<s[p[1]], s[p[2]]>> : p \in {q \in (DOMAIN s) \X (DOMAIN s) : q[1] < q[2]}}
    \cup (IF Len(s) = 3 THEN {s} ELSE {})

\* The sequences of m nodes in all, over trees whose sets by size are bySize.
RECURSIVE SeqsOfSize(_, _)
SeqsOfSize(bySize, m) ==
    IF m = 0 THEN {<<>>}
    ELSE UNION {{<<x>> \o s : x \in bySize[k], s \in SeqsOfSize(bySize, m - k)} :
                  k \in 1..m}

\* The functions from the keys of a non-empty subsequence of keySeq to the
\* elements of a sequence of seqs of the same length.
Mappings(keySeq, seqs) ==
    {[k \in {p[1][i] : i \in DOMAIN p[1]} |-> p[2][CHOOSE i \in DOMAIN p[1] : p[1][i] = k]] :
        p \in {q \in SubSeqs(keySeq) \X seqs : Len(q[1]) = Len(q[2])}}

\* bySize[n]: the terms of exactly n nodes over InnerLeafTerms, for n up to
\* the given size.
RECURSIVE TermsBySize(_)
TermsBySize(n) ==
    IF n = 1 THEN <<InnerLeafTerms \cup {<<"list", <<>>>>, <<"map", <<>>>>}>>
    ELSE LET bySize == TermsBySize(n - 1)
             seqs == SeqsOfSize(bySize, n - 1)
         IN Append(bySize,
                   {<<"list", s>> : s \in seqs} \cup {<<"tuple", s>> : s \in seqs}
                   \cup {<<"map", f>> : f \in Mappings(MapKeySeq, seqs)})

AllTerms ==
    LET bySize == TermsBySize(MaxNodes) IN LeafTerms \cup UNION {bySize[n] : n \in 1..MaxNodes}

\* Values, the same way. SafeLeafValues are the leaves of the round trip:
\* Null, Bool, String and the integers of the i64 range.
SafeLeafValues ==
    {Null, Bool(TRUE), Bool(FALSE)} \cup {String(s) : s \in StringSet}
    \cup {NumInt(n) : n \in {I64_MIN, 0, I64_MAX}}
LeafValues ==
    SafeLeafValues \cup {NumInt(U64_MAX)} \cup {NumFloat(h) : h \in FloatSet}

\* The leaves of the Values that have more than one node.
InnerLeafValues == {Null, Bool(TRUE), String("a"), NumInt(I64_MAX), NumFloat(3)}

RECURSIVE ValuesBySize(_)
ValuesBySize(n) ==
    IF n = 1 THEN <<InnerLeafValues \cup {Array(<<>>), Object(<<>>)}>>
    ELSE LET bySize == ValuesBySize(n - 1)
             seqs == SeqsOfSize(bySize, n - 1)
         IN Append(bySize,
                   {Array(s) : s \in seqs}
                   \cup {Object(f) : f \in Mappings(KeySeq, seqs)})

AllValues ==
    LET bySize == ValuesBySize(MaxNodes) IN LeafValues \cup UNION {bySize[n] : n \in 1..MaxNodes}

\* A Value built from Null, Bool, String, Array, Object and i64 integers.
RECURSIVE IsSafeValue(_)
IsSafeValue(v) ==
    CASE v[1] = "Array" -> \A i \in DOMAIN v[2] : IsSafeValue(v[2][i])
      [] v[1] = "Object" -> \A k \in DOMAIN v[2] : IsSafeValue(v[2][k])
      [] v[1] = "Number" -> v[2][1] = "int" /\ v[2][2] >= I64_MIN /\ v[2][2] <= I64_MAX
      [] OTHER -> TRUE

----------------------------------------------------------------------------
(* LuxComponent, lib.rs 19-25, and EchoComponent, components/echo.rs *)

Unit == <<"unit", 0>>

\* EchoComponent::new
EchoComponent_new(config) == <<"EchoComponent", config>>
\* EchoComponent::initialize
EchoComponent_initialize(self) == Ok(Unit)
\* EchoComponent::process
EchoComponent_process(self, input) == Ok(input)
\* EchoComponent::cleanup
EchoComponent_cleanup(self) == Ok(Unit)

\* Any other implementation of the trait: each operation returns a Result,
\* so it may succeed or fail, and process may return any Value (here Null).
DynComponent_new(config) == <<"DynComponent", config>>

\* The outcomes of component.initialize().await
LuxComponent_initialize(self) ==
    IF self[1] = "EchoComponent" THEN {EchoComponent_initialize(self)}
    ELSE {Ok(Unit), Err(ComponentError)}

\* The outcomes of component.process(input).await
LuxComponent_process(self, input) ==
    IF self[1] = "EchoComponent" THEN {EchoComponent_process(self, input)}
    ELSE {Ok(Null), Err(ComponentError)}

\* The outcomes of component.cleanup().await
LuxComponent_cleanup(self) ==
    IF self[1] = "EchoComponent" THEN {EchoComponent_cleanup(self)}
    ELSE {Ok(Unit), Err(ComponentError)}

\* create_component, lib.rs 90-97. The crate's match has the one arm "echo";
\* any further name in `registered` stands for an arm added for another
\* implementation of LuxComponent.
create_component(name, config) ==
    LET config_json == term_to_json(config) IN
    IF IsErr(config_json) THEN config_json
    ELSE IF name = "echo" THEN Ok(EchoComponent_new(config_json[2]))
    ELSE IF name \in registered THEN Ok(DynComponent_new(config_json[2]))
    ELSE Err(NotImplemented)

----------------------------------------------------------------------------
(* The host: threads calling the three NIFs *)

Callers == {"t1", "t2"}
\* The ids of the resources one behaviour may create.
HandleIds == {1, 2}
Free == "free"
NoComponent == <<"none", 0>>
Nothing == <<"none", 0>>

\* The names, configuration terms and input terms the host passes.
Names == {"echo", "dyn", "nope"}
AtomKeyMap == <<"map", [k \in {<<"atom", "k">>} |-> <<"int", 1>>]>>
ConfigTerms == {<<"atom", "nil">>, <<"binary", "a">>, AtomKeyMap}
EchoValues == {String("a"), Object([k \in {"a"} |-> Null])}
InputTerms == {json_to_term(v)[2] : v \in EchoValues} \cup {AtomKeyMap}

\* A call's record; h is 0 while the call has no resource. comp is the
\* component initialize has built, until it is moved into the resource.
NoCall ==
    [op |-> "none", name |-> "", h |-> 0,
     input |-> Nothing, value |-> Nothing, comp |-> NoComponent,
     seen |-> {}, ran |-> FALSE]

\* The outcomes of the component operations already executed on resource h
\* that closed it: what a call issued now comes after.
Closings(h) == {log[h][i] : i \in DOMAIN log[h]} \cap {"cleanup_ok", "cleanup_err"}

Return(c, result) ==
    /\ pc' = [pc EXCEPT ![c] = "idle"]
    /\ ret' = [ret EXCEPT ![c] = result]

SysInit ==
    /\ handles = {}
    /\ component = [h \in HandleIds |-> NoComponent]
    /\ lock = [h \in HandleIds |-> Free]
    /\ contexts = 0
    /\ pc = [c \in Callers |-> "idle"]
    /\ call = [c \in Callers |-> NoCall]
    /\ ret = [c \in Callers |-> Nothing]
    /\ log = [h \in HandleIds |-> <<>>]
    /\ ncalls = 0

BridgeIdle ==
    /\ b_pc = "off"
    /\ b_in = Nothing
    /\ b_out = Nothing
    /\ b_back = Nothing

\* The crate as it is: "echo" is the only registered component.
Init == SysInit /\ registered = {"echo"} /\ BridgeIdle

\* The crate with a second registered component, an arbitrary LuxComponent.
InitDyn == SysInit /\ registered = {"echo", "dyn"} /\ BridgeIdle

----------------------------------------------------------------------------
(* initialize, lib.rs 43-61 *)

\* Lines 45-48: Runtime::new(), which may fail, then create_component; when
\* that fails the runtime just built is dropped with the frame. Both are
\* local to the calling thread.
initialize_call(c) ==
    /\ pc[c] = "idle"
    /\ ncalls < MaxCalls
    /\ Cardinality(handles) + Cardinality({d \in Callers : pc[d] = "i_init"}) < Cardinality(HandleIds)
    /\ ncalls' = ncalls + 1
    /\ \E name \in Names, config \in ConfigTerms, runtime \in {"Ok", "Err"} :
          LET created == create_component(name, config) IN
          IF runtime = "Err"
          THEN /\ call' = [call EXCEPT ![c] = [NoCall EXCEPT !.op = "initialize"]]
               /\ Return(c, Err(RuntimeError))
               /\ contexts' = contexts
          ELSE IF IsErr(created)
          THEN /\ call' = [call EXCEPT ![c] =
                              [NoCall EXCEPT !.op = "initialize", !.name = name]]
               /\ Return(c, created)
               /\ contexts' = (contexts + 1) - 1
          ELSE /\ call' = [call EXCEPT ![c] =
                              [NoCall EXCEPT !.op = "initialize", !.name = name,
                                             !.comp = created[2]]]
               /\ pc' = [pc EXCEPT ![c] = "i_init"]
               /\ contexts' = contexts + 1
               /\ ret' = [ret EXCEPT ![c] = Nothing]
    /\ UNCHANGED <<handles, component, lock, log, registered, bridgevars>>

\* initialize_run as it would be were the resource built before the
\* component's initialize ran: a failed initialize leaves the resource behind.
initialize_run_resource_first(c) ==
    /\ pc[c] = "i_init"
    /\ \E out \in LuxComponent_initialize(call[c].comp) :
          LET h == Cardinality(handles) + 1 IN
          /\ handles' = handles \cup {h}
          /\ component' = [component EXCEPT ![h] = call[c].comp]
          /\ log' = [log EXCEPT ![h] =
                        <<IF IsOk(out) THEN "initialize_ok" ELSE "initialize_err">>]
          /\ call' = [call EXCEPT ![c].ran = TRUE, ![c].h = IF IsOk(out) THEN h ELSE 0,
                                   ![c].comp = NoComponent]
          /\ Return(c, IF IsErr(out) THEN out ELSE Ok(<<"resource", h>>))
          /\ contexts' = contexts
    /\ UNCHANGED <<lock, ncalls, registered, bridgevars>>

\* initialize_run as it would be without lines 51-53: the resource is built
\* around a component whose initialize never ran.
initialize_run_skips_initialize(c) ==
    /\ pc[c] = "i_init"
    /\ LET h == Cardinality(handles) + 1 IN
          /\ handles' = handles \cup {h}
          /\ component' = [component EXCEPT ![h] = call[c].comp]
          /\ log' = log
          /\ call' = [call EXCEPT ![c].h = h, ![c].comp = NoComponent]
          /\ Return(c, Ok(<<"resource", h>>))
          /\ contexts' = contexts
    /\ UNCHANGED <<lock, ncalls, registered, bridgevars>>

\* initialize_run as it would be were the runtime kept alive (leaked) when
\* the component's initialize fails.
initialize_run_leaks_runtime(c) ==
    /\ pc[c] = "i_init"
    /\ \E out \in LuxComponent_initialize(call[c].comp) :
          IF IsErr(out)
          THEN /\ Return(c, out)
               /\ contexts' = contexts
               /\ call' = [call EXCEPT ![c].ran = TRUE, ![c].comp = NoComponent]
               /\ UNCHANGED <<handles, component, log>>
          ELSE LET h == Cardinality(handles) + 1 IN
               /\ handles' = handles \cup {h}
               /\ component' = [component EXCEPT ![h] = call[c].comp]
               /\ log' = [log EXCEPT ![h] = <<"initialize_ok">>]
               /\ call' = [call EXCEPT ![c].ran = TRUE, ![c].h = h,
                                        ![c].comp = NoComponent]
               /\ Return(c, Ok(<<"resource", h>>))
               /\ contexts' = contexts
    /\ UNCHANGED <<lock, ncalls, registered, bridgevars>>

\* Lines 51-60: block_on(component.initialize()); on Err the runtime and the
\* component are dropped; on Ok the resource is built and its handle returned.
initialize_run(c) ==
    /\ pc[c] = "i_init"
    /\ \E out \in LuxComponent_initialize(call[c].comp) :
          IF IsErr(out)
          THEN /\ Return(c, out)
               /\ contexts' = contexts - 1
               /\ call' = [call EXCEPT ![c].ran = TRUE, ![c].comp = NoComponent]
               /\ UNCHANGED <<handles, component, log>>
          ELSE LET h == Cardinality(handles) + 1 IN
               /\ handles' = handles \cup {h}
               /\ component' = [component EXCEPT ![h] = call[c].comp]
               /\ log' = [log EXCEPT ![h] = <<"initialize_ok">>]
               /\ call' = [call EXCEPT ![c].ran = TRUE, ![c].h = h,
                                        ![c].comp = NoComponent]
               /\ Return(c, Ok(<<"resource", h>>))
               /\ contexts' = contexts
    /\ UNCHANGED <<lock, ncalls, registered, bridgevars>>

----------------------------------------------------------------------------
(* process, lib.rs 64-76 *)

\* process_call as it would be with lines 67 and 69 exchanged: the caller
\* goes for the lock with its input not yet converted.
process_call_lock_first(c) ==
    /\ pc[c] = "idle"
    /\ ncalls < MaxCalls
    /\ ncalls' = ncalls + 1
    /\ \E h \in handles, input \in InputTerms :
          /\ call' = [call EXCEPT ![c] =
                         [NoCall EXCEPT !.op = "process", !.h = h, !.input = input,
                                        !.value = term_to_json(input),
                                        !.seen = Closings(h)]]
          /\ pc' = [pc EXCEPT ![c] = "p_lock"]
          /\ ret' = [ret EXCEPT ![c] = Nothing]
    /\ UNCHANGED <<handles, component, lock, contexts, log, registered, bridgevars>>

\* Line 67: term_to_json(input)?, before the lock is asked for.
process_call(c) ==
    /\ pc[c] = "idle"
    /\ ncalls < MaxCalls
    /\ ncalls' = ncalls + 1
    /\ \E h \in handles, input \in InputTerms :
          LET input_value == term_to_json(input) IN
          /\ call' = [call EXCEPT ![c] =
                         [NoCall EXCEPT !.op = "process", !.h = h, !.input = input,
                                        !.value = input_value, !.seen = Closings(h)]]
          /\ IF IsErr(input_value)
             THEN Return(c, input_value)
             ELSE /\ pc' = [pc EXCEPT ![c] = "p_lock"]
                  /\ ret' = [ret EXCEPT ![c] = Nothing]
    /\ UNCHANGED <<handles, component, lock, contexts, log, registered, bridgevars>>

\* process_lock as it would be were the runtime not behind a Mutex: the
\* caller goes on to block_on whoever is inside.
process_lock_no_mutex(c) ==
    /\ pc[c] = "p_lock"
    /\ lock' = [lock EXCEPT ![call[c].h] = c]
    /\ pc' = [pc EXCEPT ![c] = "p_run"]
    /\ UNCHANGED <<handles, component, contexts, call, ret, log, ncalls, registered,
                   bridgevars>>

\* Line 69: resource.runtime.lock().unwrap() blocks until the Mutex is free.
process_lock(c) ==
    /\ pc[c] = "p_lock"
    /\ lock[call[c].h] = Free
    /\ lock' = [lock EXCEPT ![call[c].h] = c]
    /\ pc' = [pc EXCEPT ![c] = "p_run"]
    /\ UNCHANGED <<handles, component, contexts, call, ret, log, ncalls, registered,
                   bridgevars>>

\* process_run as it would be were the guard leaked on the error path: the
\* component's error returns with the Mutex still held.
process_run_keeps_lock(c) ==
    /\ pc[c] = "p_run"
    /\ LET h == call[c].h IN
       \E out \in LuxComponent_process(component[h], call[c].value[2]) :
          /\ log' = [log EXCEPT ![h] =
                        Append(@, IF IsOk(out) THEN "process_ok" ELSE "process_err")]
          /\ call' = [call EXCEPT ![c].ran = TRUE]
          /\ Return(c, IF IsErr(out) THEN out ELSE json_to_term(out[2]))
          /\ lock' = IF IsErr(out) THEN lock ELSE [lock EXCEPT ![h] = Free]
    /\ UNCHANGED <<handles, component, contexts, ncalls, registered, bridgevars>>

\* Lines 70-76: block_on(component.process(input_value))?, json_to_term of
\* the result, and the guard dropped as the function returns either way.
process_run(c) ==
    /\ pc[c] = "p_run"
    /\ LET h == call[c].h IN
       \E out \in LuxComponent_process(component[h], call[c].value[2]) :
          /\ log' = [log EXCEPT ![h] =
                        Append(@, IF IsOk(out) THEN "process_ok" ELSE "process_err")]
          /\ call' = [call EXCEPT ![c].ran = TRUE]
          /\ Return(c, IF IsErr(out) THEN out ELSE json_to_term(out[2]))
          /\ lock' = [lock EXCEPT ![h] = Free]
    /\ UNCHANGED <<handles, component, contexts, ncalls, registered, bridgevars>>

----------------------------------------------------------------------------
(* cleanup, lib.rs 78-87 *)

cleanup_call(c) ==
    /\ pc[c] = "idle"
    /\ ncalls < MaxCalls
    /\ ncalls' = ncalls + 1
    /\ \E h \in handles :
          call' = [call EXCEPT ![c] =
                      [NoCall EXCEPT !.op = "cleanup", !.h = h, !.seen = Closings(h)]]
    /\ pc' = [pc EXCEPT ![c] = "c_lock"]
    /\ ret' = [ret EXCEPT ![c] = Nothing]
    /\ UNCHANGED <<handles, component, lock, contexts, log, registered, bridgevars>>

\* cleanup_lock as it would be were one runtime, behind one Mutex, shared by
\* all the resources: the caller waits for an operation on any handle.
cleanup_lock_shared_runtime(c) ==
    /\ pc[c] = "c_lock"
    /\ \A h \in HandleIds : lock[h] = Free
    /\ lock' = [lock EXCEPT ![call[c].h] = c]
    /\ pc' = [pc EXCEPT ![c] = "c_run"]
    /\ UNCHANGED <<handles, component, contexts, call, ret, log, ncalls, registered,
                   bridgevars>>

\* Line 81: resource.runtime.lock().unwrap()
cleanup_lock(c) ==
    /\ pc[c] = "c_lock"
    /\ lock[call[c].h] = Free
    /\ lock' = [lock EXCEPT ![call[c].h] = c]
    /\ pc' = [pc EXCEPT ![c] = "c_run"]
    /\ UNCHANGED <<handles, component, contexts, call, ret, log, ncalls, registered,
                   bridgevars>>

\* cleanup_run as it would be were the guard leaked (forgotten) when the
\* component's cleanup fails.
cleanup_run_leaks_guard(c) ==
    /\ pc[c] = "c_run"
    /\ LET h == call[c].h IN
       \E out \in LuxComponent_cleanup(component[h]) :
          /\ log' = [log EXCEPT ![h] =
                        Append(@, IF IsOk(out) THEN "cleanup_ok" ELSE "cleanup_err")]
          /\ call' = [call EXCEPT ![c].ran = TRUE]
          /\ Return(c, IF IsErr(out) THEN out ELSE Ok(<<"atom", "ok">>))
          /\ lock' = IF IsErr(out) THEN lock ELSE [lock EXCEPT ![h] = Free]
    /\ UNCHANGED <<handles, component, contexts, ncalls, registered, bridgevars>>

\* Lines 82-86: block_on(component.cleanup())?, Ok(atoms::ok()), guard dropped.
cleanup_run(c) ==
    /\ pc[c] = "c_run"
    /\ LET h == call[c].h IN
       \E out \in LuxComponent_cleanup(component[h]) :
          /\ log' = [log EXCEPT ![h] =
                        Append(@, IF IsOk(out) THEN "cleanup_ok" ELSE "cleanup_err")]
          /\ call' = [call EXCEPT ![c].ran = TRUE]
          /\ Return(c, IF IsErr(out) THEN out ELSE Ok(<<"atom", "ok">>))
          /\ lock' = [lock EXCEPT ![h] = Free]
    /\ UNCHANGED <<handles, component, contexts, ncalls, registered, bridgevars>>

----------------------------------------------------------------------------
(* The specifications of the NIFs *)

initialize == \E c \in Callers : initialize_call(c)
initialize_finish == \E c \in Callers : initialize_run(c)
process == \E c \in Callers : process_call(c)
process_acquire == \E c \in Callers : process_lock(c)
process_finish == \E c \in Callers : process_run(c)
cleanup == \E c \in Callers : cleanup_call(c)
cleanup_acquire == \E c \in Callers : cleanup_lock(c)
cleanup_finish == \E c \in Callers : cleanup_run(c)

Next ==
    \/ initialize
    \/ initialize_finish
    \/ process
    \/ process_acquire
    \/ process_finish
    \/ cleanup
    \/ cleanup_acquire
    \/ cleanup_finish

Spec == Init /\ [][Next]_vars
SpecDyn == InitDyn /\ [][Next]_vars

\* The steps of caller c that the host does not choose: the rest of a call
\* once it has been made. A thread is at one place of one NIF, so at most one
\* of the disjuncts is enabled.
run_step(c) == initialize_run(c) \/ process_run(c) \/ cleanup_run(c)
lock_step(c) == process_lock(c) \/ cleanup_lock(c)

\* The scheduling the liveness of the locks rests on: a thread that is inside
\* block_on runs the component operation to its end (weak fairness of the run
\* steps), and the Mutex serves every thread that keeps asking for it (strong
\* fairness of the lock steps: the lock is taken and freed by others while a
\* thread waits). The host is free to make no further call.
Fairness ==
    \A c \in Callers : WF_vars(run_step(c)) /\ SF_vars(lock_step(c))

SpecFair == InitDyn /\ [][Next]_vars /\ Fairness

----------------------------------------------------------------------------
(* The bridge on its own: one conversion, and the conversion back *)

BridgeInit ==
    /\ SysInit
    /\ registered = {"echo"}
    /\ b_pc = "start"
    /\ b_in \in {<<"term", t>> : t \in AllTerms} \cup {<<"value", v>> : v \in AllValues}
    /\ b_out = Nothing
    /\ b_back = Nothing

\* term_to_json(env, term)
apply_term_to_json ==
    /\ b_pc = "start"
    /\ b_in[1] = "term"
    /\ b_out' = term_to_json(b_in[2])
    /\ b_pc' = "term_to_json"
    /\ UNCHANGED <<b_in, b_back, sysvars>>

\* json_to_term(env, &value)
apply_json_to_term ==
    /\ b_pc = "start"
    /\ b_in[1] = "value"
    /\ b_out' = json_to_term(b_in[2])
    /\ b_pc' = "json_to_term"
    /\ UNCHANGED <<b_in, b_back, sysvars>>

\* term_to_json(env, json_to_term(env, &value)?)
apply_round_trip ==
    /\ b_pc = "json_to_term"
    /\ IsOk(b_out)
    /\ b_back' = term_to_json(b_out[2])
    /\ b_pc' = "round_trip"
    /\ UNCHANGED <<b_in, b_out, sysvars>>

NextBridge == apply_term_to_json \/ apply_json_to_term \/ apply_round_trip

SpecBridge == BridgeInit /\ [][NextBridge]_vars

----------------------------------------------------------------------------
(* Properties *)

\* Caller c is inside the component's process or cleanup on resource h.
Inside(c, h) == pc[c] \in {"p_run", "c_run"} /\ call[c].h = h
\* Caller c is waiting for the Mutex of resource h.
Waiting(c, h) == pc[c] \in {"p_lock", "c_lock"} /\ call[c].h = h
\* Caller c's last call has returned.
Returned(c, op) == pc[c] = "idle" /\ call[c].op = op

\* C1: a process call issued on a handle after a cleanup of that handle has
\* returned success is rejected with an error: it never executes the
\* component's process and never returns an output term.
C1_PostCloseRejection ==
    \A c \in Callers :
        (call[c].op = "process" /\ "cleanup_ok" \in call[c].seen)
            => /\ ~call[c].ran
               /\ (pc[c] = "idle" => IsErr(ret[c]))

\* C2: on every handle at most one caller is inside the component's process
\* or cleanup, that caller holds the handle's lock, and every other caller
\* with a call on that handle in progress is waiting for the lock.
C2_ExclusiveAccess ==
    \A h \in HandleIds : \A c \in Callers :
        Inside(c, h) =>
            /\ lock[h] = c
            /\ \A d \in Callers \ {c} :
                  (pc[d] # "idle" /\ call[d].op \in {"process", "cleanup"} /\ call[d].h = h)
                      => Waiting(d, h)

\* C2 witness: one caller is inside the component while another waits for
\* the same handle's lock.
C2_Witness ==
    \E h \in handles : \E c, d \in Callers : c # d /\ Inside(c, h) /\ Waiting(d, h)

\* C3: an initialize call with a name that is not registered fails with
\* NotImplemented, whatever the configuration term, and returns no handle.
\* (A call whose Runtime::new failed never reaches the lookup and records
\* no name; it is left aside.)
C3_UnknownComponent ==
    \A c \in Callers :
        (Returned(c, "initialize") /\ call[c].name # "" /\ call[c].name \notin registered)
            => ret[c] = Err(NotImplemented) /\ call[c].h = 0

\* C4: term_to_json returns a Value, never an error, for every host term, and
\* json_to_term returns a term, never an error, for every Value.
C4_Totality ==
    b_pc \in {"term_to_json", "json_to_term"} => IsOk(b_out)

\* C5: term_to_json(json_to_term(v)) = v for every Value v built from Null,
\* Bool, String, Array, Object and integers of the 64-bit signed range.
C5_RoundTrip ==
    (b_pc = "round_trip" /\ IsSafeValue(b_in[2])) => b_back = Ok(b_in[2])

\* C6: every process call on an echo handle with the input json_to_term(v)
\* succeeds and returns a term t with term_to_json(t) = v.
C6_EchoIdentity ==
    \A c \in Callers : \A v \in EchoValues :
        (Returned(c, "process") /\ component[call[c].h][1] = "EchoComponent"
         /\ call[c].input = json_to_term(v)[2])
            => IsOk(ret[c]) /\ term_to_json(ret[c][2]) = Ok(v)

\* C7: no handle comes from a failed initialize. Every resource that exists
\* holds a component whose initialize completed successfully; an initialize
\* call has a handle exactly when it has returned Ok, that handle is the one
\* it returns, and a call that returned an error has none.
C7_NoHandleFromFailedCreate ==
    /\ \A h \in HandleIds :
          /\ h \in handles <=> log[h] # <<>>
          /\ h \in handles => log[h][1] = "initialize_ok" /\ component[h] # NoComponent
          /\ h \notin handles => component[h] = NoComponent /\ lock[h] = Free
    /\ \A c \in Callers :
          call[c].op = "initialize" =>
              /\ call[c].h # 0 <=> (pc[c] = "idle" /\ IsOk(ret[c]))
              /\ IsOk(ret[c]) => ret[c] = Ok(<<"resource", call[c].h>>) /\ call[c].h \in handles

\* C7 witness: one initialize failed in the component's own initialize and
\* another in the name lookup, and no resource exists.
C7_Witness ==
    /\ handles = {}
    /\ \E c, d \in Callers :
          /\ Returned(c, "initialize") /\ call[c].ran /\ ret[c] = Err(ComponentError)
          /\ Returned(d, "initialize") /\ ret[d] = Err(NotImplemented)

\* The Mutex of a resource is held only by a caller that is inside the
\* component on that resource.
LockHeldOnlyInside ==
    \A h \in HandleIds : lock[h] # Free => lock[h] \in Callers /\ Inside(lock[h], h)

\* A step in which the component's process fails on resource h under caller c
\* returns the component's error to c, frees h's lock and changes nothing
\* else of the resources or of the other callers.
FailedProcessStep ==
    \A c \in Callers :
        (pc[c] = "p_run" /\ log'[call[c].h] = Append(log[call[c].h], "process_err"))
            => /\ pc'[c] = "idle"
               /\ ret'[c] = Err(ComponentError)
               /\ lock'[call[c].h] = Free
               /\ handles' = handles
               /\ component' = component
               /\ contexts' = contexts
               /\ \A d \in Callers \ {c} : pc'[d] = pc[d] /\ call'[d] = call[d]

\* C8: a failed process leaves the handle ready: the call returns the
\* component's error, the handle's lock is free again (a lock is never held
\* by a caller that has returned), and the resource is as it was, so that a
\* later process or cleanup call finds the handle as if the failed call had
\* never happened.
C8_FailedProcessLeavesReady ==
    []LockHeldOnlyInside /\ [][FailedProcessStep]_vars

\* C8 witness: on one handle the component's process failed, and a later
\* call executed the component on that handle again.
C8_Witness ==
    \E h \in handles : \E i, j \in DOMAIN log[h] :
        /\ i < j
        /\ log[h][i] = "process_err"
        /\ log[h][j] \in {"process_ok", "cleanup_ok"}
        /\ lock[h] = Free

\* C9: on every instance the component's cleanup is executed at most once,
\* and no component operation is executed on the instance after it.
C9_CleanupAtMostOnce ==
    \A h \in HandleIds : \A i \in DOMAIN log[h] :
        log[h][i] \in {"cleanup_ok", "cleanup_err"} => i = Len(log[h])

\* C10: once the component's cleanup has failed on a handle, the handle is
\* closed: a process or cleanup call issued on it afterwards does not execute
\* the component and returns an error.
C10_FailedCloseStillCloses ==
    \A c \in Callers :
        (call[c].op \in {"process", "cleanup"} /\ "cleanup_err" \in call[c].seen)
            => /\ ~call[c].ran
               /\ (pc[c] = "idle" => IsErr(ret[c]))

\* The component operations of the log, by kind.
InitializeEvents == {"initialize_ok", "initialize_err"}
ProcessEvents == {"process_ok", "process_err"}
CleanupEvents == {"cleanup_ok", "cleanup_err"}

\* C11: on every instance the component's initialize is executed exactly
\* once, successfully, and before any process or cleanup of that instance: the
\* log of a resource starts with the one successful initialize, and a call
\* that is waiting for or inside the component is on such a resource.
C11_InitializeBeforeProcess ==
    /\ \A h \in handles :
          /\ log[h] # <<>>
          /\ \A i \in DOMAIN log[h] : (log[h][i] \in InitializeEvents) <=> (i = 1)
          /\ log[h][1] = "initialize_ok"
    /\ \A c \in Callers :
          (call[c].op \in {"process", "cleanup"})
              => call[c].h \in handles /\ log[call[c].h][1] = "initialize_ok"

\* C11 witness: a resource on which process was executed after its initialize,
\* while another initialize has failed in the component.
C11_Witness ==
    /\ \E h \in handles : Len(log[h]) >= 2 /\ log[h][2] \in ProcessEvents
    /\ \E c \in Callers : Returned(c, "initialize") /\ ret[c] = Err(ComponentError)

\* C12: a call waits for a handle's lock only while an operation is inside
\* the component on that same handle: with nobody inside on its handle, a
\* waiting caller can take the lock at once, whatever is in progress on the
\* other handles. Each handle has its own lock, held by its own caller.
C12_HandleIsolation ==
    /\ \A c \in Callers : \A h \in HandleIds :
          (Waiting(c, h) /\ \A d \in Callers : ~Inside(d, h))
              => ENABLED (process_lock(c) \/ cleanup_lock(c))
    /\ \A h \in HandleIds : \A c \in Callers :
          lock[h] = c => call[c].h = h

\* C12 witness: a caller waits on one handle, whose lock is free, while
\* another caller is inside the component on a different handle.
C12_Witness ==
    \E c, d \in Callers : \E h, g \in handles :
        c # d /\ h # g /\ Waiting(c, h) /\ lock[h] = Free /\ Inside(d, g)

\* A caller that is not inside a component operation holds no lock: not
\* before its call, not while it converts or waits, and not after its call
\* has returned, whichever way it returned.
NoLockOutsideOperation ==
    \A c \in Callers : \A h \in HandleIds :
        lock[h] = c => pc[c] \in {"p_run", "c_run"} /\ call[c].h = h

\* Every caller that waits for a handle's lock gets it and returns.
WaitingReturns ==
    \A c \in Callers : (pc[c] \in {"p_lock", "c_lock"}) ~> (pc[c] = "idle")

\* C13: process and cleanup release the lock on every way out (success,
\* component error, conversion error), so that no lock is held while no
\* operation executes on the handle; and, the component operations
\* terminating and the lock being fair, every caller that waits on a handle
\* gets the lock and its call returns.
C13_LockReleaseAndProgress ==
    []NoLockOutsideOperation /\ WaitingReturns

\* C13 witness: a process call has returned the component's error, and the
\* other caller, on the same handle, is inside the component with the lock
\* that the failed call gave back.
C13_Witness ==
    \E c, d \in Callers : \E h \in handles :
        /\ c # d
        /\ Returned(c, "process") /\ call[c].h = h /\ ret[c] = Err(ComponentError)
        /\ log[h][Len(log[h])] = "process_err"
        /\ Inside(d, h) /\ lock[h] = d

\* The Value the named rule of the classification gives for a term that is
\* neither a map nor a list.
ClassifiedLeaf(term) ==
    CASE term[1] \in {"int", "float"} -> "Number"
      [] term[1] = "binary" -> "String"
      [] term \in {<<"atom", "true">>, <<"atom", "false">>} -> "Bool"
      [] term = <<"atom", "nil">> -> "Null"
      [] term[1] = "atom" -> "String"
      [] OTHER -> "Null"

\* C14: for every host term, term_to_json yields the result of the first
\* rule that matches, in the order mapping, sequence, numeric, text, boolean,
\* atom, fallback: a map becomes an Object, a list an Array, a number a
\* Number, a binary text a String, the atoms true and false a Bool, the atom
\* nil Null, any other atom the String of its name, every other term Null.
C14_Classification ==
    b_pc = "term_to_json" =>
        /\ IsOk(b_out)
        /\ LET term == b_in[2] IN
           CASE term[1] = "map" -> b_out[2][1] = "Object"
             [] term[1] = "list" -> b_out[2][1] = "Array"
             [] OTHER ->
                 /\ b_out[2][1] = ClassifiedLeaf(term)
                 /\ term[1] = "binary" => b_out[2] = String(term[2])
                 /\ term[1] = "atom" /\ ClassifiedLeaf(term) = "String"
                        => b_out[2] = String(term[2])
                 /\ ClassifiedLeaf(term) = "Bool"
                        => b_out[2] = Bool(term[2] = "true")
                 /\ ClassifiedLeaf(term) = "Null" => b_out[2] = Null

\* C15: a number term that decodes neither as a 64-bit signed integer nor as
\* a float (an integer outside the 64-bit range) is converted to Number(0),
\* and the conversion succeeds; a number that decodes as a 64-bit signed
\* integer is converted to that same integer.
C15_NumericFallback ==
    (b_pc = "term_to_json" /\ b_in[2][1] = "int") =>
        LET n == b_in[2][2] IN
        IF n >= I64_MIN /\ n <= I64_MAX
        THEN b_out = Ok(NumInt(n))
        ELSE b_out = Ok(NumInt(0))

\* C15 witness: the integer just above the 64-bit range has been converted,
\* to Number(0).
C15_Witness ==
    /\ b_pc = "term_to_json"
    /\ b_in = <<"term", <<"int", I64_MAX + 1>>>>
    /\ b_out = Ok(NumInt(0))

\* C16: the echo component ignores its configuration: an initialize call
\* with the name "echo" has the same outcome, success, whatever the
\* configuration term, and what the calls on an echo handle return depends on
\* their inputs only. (A call whose Runtime::new failed records no name and
\* is left aside.)
C16_EchoIgnoresConfig ==
    \A c \in Callers :
        /\ (Returned(c, "initialize") /\ call[c].name = "echo")
               => IsOk(ret[c]) /\ call[c].h \in handles
        /\ (Returned(c, "process") /\ component[call[c].h][1] = "EchoComponent"
            /\ IsOk(call[c].value))
               => ret[c] = json_to_term(call[c].value[2])

\* C17: json_to_term encodes a Number as a host integer whenever its value
\* has no fractional part and is exactly an integer, whether the Number
\* stores it as an integer or as a float such as 2.0, and as a host float
\* otherwise. (Floats are counted in halves: an even count is a whole value.)
C17_NumberEncoding ==
    (b_pc = "json_to_term" /\ b_in[2][1] = "Number") =>
        LET n == b_in[2][2] IN
        IF n[1] = "int" THEN b_out = Ok(<<"int", n[2]>>)
        ELSE IF n[2] % 2 = 0 THEN b_out = Ok(<<"int", n[2] \div 2>>)
        ELSE b_out = Ok(<<"float", n[2]>>)

\* A caller that waits for a lock or holds one in process has an input that
\* was converted; a process call whose input failed the conversion has
\* returned that error and never ran the component.
ConvertedBeforeLock ==
    \A c \in Callers :
        call[c].op = "process" =>
            IF IsOk(call[c].value)
            THEN TRUE
            ELSE /\ pc[c] = "idle"
                 /\ ret[c] = Err(BadArg)
                 /\ ~call[c].ran
                 /\ \A h \in HandleIds : lock[h] # c

\* A process call whose input fails the conversion returns in the step in
\* which it is made, whoever holds the handle's lock, and leaves the locks,
\* the log of the component operations and the other callers as they were.
FailedConversionStep ==
    \A c \in Callers :
        (pc[c] = "idle" /\ ncalls' = ncalls + 1 /\ call'[c] # call[c]
         /\ call'[c].op = "process" /\ IsErr(term_to_json(call'[c].input)))
            => /\ pc'[c] = "idle"
               /\ ret'[c] = Err(BadArg)
               /\ lock' = lock
               /\ log' = log
               /\ \A d \in Callers \ {c} : pc'[d] = pc[d] /\ call'[d] = call[d]

\* C18: in process the input is converted before the lock is asked for: a
\* call whose conversion fails returns the error without taking the lock and
\* without running the component's process, so it neither waits for another
\* caller of the handle nor delays one.
C18_ConversionBeforeLock ==
    []ConvertedBeforeLock /\ [][FailedConversionStep]_vars

\* C18 witness: a process call has returned the conversion error on a handle
\* whose lock another caller holds, inside the component.
C18_Witness ==
    \E c, d \in Callers : \E h \in handles :
        /\ c # d
        /\ Returned(c, "process") /\ call[c].h = h
        /\ IsErr(call[c].value) /\ ret[c] = Err(BadArg)
        /\ Inside(d, h) /\ lock[h] = d

\* The initialize calls in progress: each has built its runtime and has not
\* yet returned.
InitializeInProgress == {c \in Callers : pc[c] = "i_init"}

\* C19: no execution context outlives a failed initialize. The runtime is
\* built first; when the name lookup or the component's initialize fails it
\* is dropped before the call returns, so the live runtimes are those of the
\* resources and of the initialize calls in progress, and with no initialize
\* call in progress there are as many runtimes as resources. A call whose
\* runtime could not be built never reaches the name lookup.
C19_NoContextOutlivesFailedCreate ==
    /\ contexts = Cardinality(handles) + Cardinality(InitializeInProgress)
    /\ InitializeInProgress = {} => contexts = Cardinality(handles)
    /\ \A c \in Callers :
          (Returned(c, "initialize") /\ ret[c] = Err(RuntimeError))
              => call[c].name = "" /\ ~call[c].ran

\* C19 witness: one initialize has failed in the component and another in
\* the name lookup, no initialize is in progress, and the one runtime alive
\* is that of the one resource.
C19_Witness ==
    /\ InitializeInProgress = {}
    /\ Cardinality(handles) = 1
    /\ contexts = 1
    /\ \E c, d \in Callers :
          /\ Returned(c, "initialize") /\ ret[c] = Err(ComponentError)
          /\ Returned(d, "initialize") /\ ret[d] = Err(NotImplemented)

====
